---- MODULE Spec2Model ----
(***************************************************************************)
(* Model of lab-4/generate_error_table.py: the Pauli commutation test,     *)
(* the X-error commutation table and the syndrome dictionary of the        *)
(* 7-qubit code.                                                           *)
(*                                                                         *)
(* A Python str is a sequence of tokens (TLA+ strings); a Pauli string is  *)
(* a sequence of one-character tokens; + and join are \o.                  *)
(***************************************************************************)
EXTENDS Integers, Sequences, FiniteSets, TLC

VARIABLES
    pc,             \* position of the program
    stabilizers,    \* generate_syndrome_dictionary: the dict of generators
    x_errors,       \* generate_x_error_table: the dict, in insertion order
    row_parts,      \* generate_x_error_table: the row under construction
    printed,        \* lines written to stdout, in order
    i,              \* generate_syndrome_dictionary: the loop index of line 63
    kind,           \* which of the X / Y / Z blocks of the loop body is running
    syndrome,       \* get_syndrome: the list of bits appended so far
    syndrome_dict,  \* generate_syndrome_dictionary: the dict under construction
    returned,       \* what generate_syndrome_dictionary returned
    exception,      \* the exception that ended the run, if any
    enumerated,     \* history: the (label, error string) pairs inserted so far
    pauli1,         \* pauli_commute called on its own: first argument
    pauli2,         \* pauli_commute called on its own: second argument
    result          \* pauli_commute called on its own: the outcome

vars == <<pc, stabilizers, x_errors, row_parts, printed, i, kind, syndrome,
          syndrome_dict, returned, exception, enumerated, pauli1, pauli2, result>>

(***************************************************************************)
(* Bounds and program constants                                            *)
(***************************************************************************)
\* longest Pauli string drawn when pauli_commute is called on its own
MaxLen == 3

\* range(7), ['I'] * 7
NumQubits == 7

Alphabet == {"I", "X", "Y", "Z"}

None == <<"None">>

(***************************************************************************)
(* pauli_commute                                                           *)
(***************************************************************************)
Min(a, b) == IF a <= b THEN a ELSE b

\* a mutation: the (Y, X) case is missing
LocalAntiCommuteNoYX(p1, p2) ==
    \/ (p1 = "X" /\ p2 \in {"Y", "Z"})
    \/ (p1 = "Y" /\ p2 \in {"Z"})
    \/ (p1 = "Z" /\ p2 \in {"X", "Y"})

\* the condition of lines 30-32
LocalAntiCommute(p1, p2) ==
    \/ (p1 = "X" /\ p2 \in {"Y", "Z"})
    \/ (p1 = "Y" /\ p2 \in {"X", "Z"})
    \/ (p1 = "Z" /\ p2 \in {"X", "Y"})

\* the loop of lines 27-33 over zip(pauli1, pauli2): the first k pairs
RECURSIVE CountUpTo(_, _, _)
CountUpTo(p1, p2, k) ==
    IF k = 0 THEN 0
    ELSE CountUpTo(p1, p2, k - 1)
         + (IF LocalAntiCommute(p1[k], p2[k]) THEN 1 ELSE 0)

\* zip stops at the shorter argument
anti_commute_count(p1, p2) == CountUpTo(p1, p2, Min(Len(p1), Len(p2)))

\* a mutation: no length check, the zip silently truncates
pauli_commute_nocheck(p1, p2) ==
    [raised |-> None, value |-> (anti_commute_count(p1, p2) % 2 = 0)]

\* a mutation: the returned value is inverted
pauli_commute_inverted(p1, p2) ==
    IF Len(p1) # Len(p2)
    THEN [raised |-> <<"ValueError">>, value |-> FALSE]
    ELSE [raised |-> None, value |-> (anti_commute_count(p1, p2) % 2 = 1)]

\* the outcome of a call: the exception raised, or the value returned
pauli_commute(p1, p2) ==
    IF Len(p1) # Len(p2)
    THEN [raised |-> <<"ValueError">>, value |-> FALSE]
    ELSE [raised |-> None, value |-> (anti_commute_count(p1, p2) % 2 = 0)]

(***************************************************************************)
(* The generators                                                          *)
(***************************************************************************)
StabNames == {"S5", "S4", "S3", "S2", "S1", "S0"}

\* a mutation: the last symbol of S5 is I
TamperedStabilizers ==
    [name \in StabNames |->
        CASE name = "S5" -> <<"Z", "I", "Z", "I", "Z", "I", "I">>
          [] name = "S4" -> <<"I", "Z", "Z", "I", "I", "Z", "Z">>
          [] name = "S3" -> <<"I", "I", "I", "Z", "Z", "Z", "Z">>
          [] name = "S2" -> <<"X", "I", "X", "I", "X", "I", "X">>
          [] name = "S1" -> <<"I", "X", "X", "I", "I", "X", "X">>
          [] name = "S0" -> <<"I", "I", "I", "X", "X", "X", "X">>]

\* the dict literal of lines 42-49
RefStabilizers ==
    [name \in StabNames |->
        CASE name = "S5" -> <<"Z", "I", "Z", "I", "Z", "I", "Z">>
          [] name = "S4" -> <<"I", "Z", "Z", "I", "I", "Z", "Z">>
          [] name = "S3" -> <<"I", "I", "I", "Z", "Z", "Z", "Z">>
          [] name = "S2" -> <<"X", "I", "X", "I", "X", "I", "X">>
          [] name = "S1" -> <<"I", "X", "X", "I", "I", "X", "X">>
          [] name = "S0" -> <<"I", "I", "I", "X", "X", "X", "X">>]

\* the dict literal of lines 96-103 (generate_x_error_table's own copy)
TableStabilizers ==
    [name \in StabNames |->
        CASE name = "S5" -> <<"Z", "I", "Z", "I", "Z", "I", "Z">>
          [] name = "S4" -> <<"I", "Z", "Z", "I", "I", "Z", "Z">>
          [] name = "S3" -> <<"I", "I", "I", "Z", "Z", "Z", "Z">>
          [] name = "S2" -> <<"X", "I", "X", "I", "X", "I", "X">>
          [] name = "S1" -> <<"I", "X", "X", "I", "I", "X", "X">>
          [] name = "S0" -> <<"I", "I", "I", "X", "X", "X", "X">>]

\* a mutation: S3 and S2 change places
StabOrderSwapped == <<"S5", "S4", "S2", "S3", "S1", "S0">>

\* the list literal of line 56
StabOrder == <<"S5", "S4", "S3", "S2", "S1", "S0">>

\* the list literal of line 123
TableStabOrder == <<"S5", "S4", "S3", "S2", "S1", "S0">>

(***************************************************************************)
(* Strings                                                                 *)
(***************************************************************************)
DigitChars == <<"0", "1", "2", "3", "4", "5", "6", "7", "8", "9">>

\* str(n) of an f-string, for the one-digit numbers the loops produce
Str(n) == <<DigitChars[n + 1]>>

\* sep.join(parts[1..k])
RECURSIVE JoinUpTo(_, _, _)
JoinUpTo(sep, parts, k) ==
    IF k = 0 THEN <<>>
    ELSE IF k = 1 THEN parts[1]
    ELSE JoinUpTo(sep, parts, k - 1) \o sep \o parts[k]

Join(sep, parts) == JoinUpTo(sep, parts, Len(parts))

(***************************************************************************)
(* The single-qubit errors                                                 *)
(***************************************************************************)
\* a mutation: qubit 0 is leftmost
ErrorStringLeft(p, q) ==
    [j \in 1..NumQubits |-> IF j = q + 1 THEN p ELSE "I"]

\* lines 65-67 (and 72-74, 79-81, 109-111): ['I'] * 7 with symbol p at
\* Python index 6 - q, joined
ErrorString(p, q) ==
    [j \in 1..NumQubits |-> IF j = (NumQubits - 1 - q) + 1 THEN p ELSE "I"]

\* line 86
Identity == <<"I", "I", "I", "I", "I", "I", "I">>

\* f'X{i}', f'Y{i}', f'Z{i}' of lines 69, 76, 83
Label(p, q) == <<p>> \o Str(q)

\* the label of line 88
IdentityLabel == <<"I">>

\* f'X_{i}' of line 111
TableKey(q) == <<"X", "_">> \o Str(q)

\* f"${error_name}$" of line 120
TableLabel(error_name) == <<"$">> \o error_name \o <<"$">>

(***************************************************************************)
(* get_syndrome                                                            *)
(***************************************************************************)
\* a mutation: the bits are inverted
SyndromeBitInverted(commutes) == IF commutes THEN "1" ELSE "0"

\* line 59
SyndromeBit(commutes) == IF commutes THEN "0" ELSE "1"

\* lines 54-60, for an error string no generator rejects
get_syndrome(error_string, stabs) ==
    [k \in 1..Len(StabOrder) |->
        SyndromeBit(pauli_commute(error_string, stabs[StabOrder[k]]).value)]

(***************************************************************************)
(* Dictionaries                                                            *)
(***************************************************************************)
EmptyDict == [s \in {} |-> None]

\* d[k] = v
Put(d, k, v) == [s \in (DOMAIN d) \cup {k} |-> IF s = k THEN v ELSE d[s]]

NotReturned == [set |-> FALSE, value |-> EmptyDict]

(***************************************************************************)
(* generate_x_error_table                                                  *)
(***************************************************************************)
\* the two header lines of lines 114-115
TableHeader ==
    << <<"| Error Code | Error Pauli String | S5(ZIZIZIZ) | S4(IZZIIZZ) | S3 (IIIZZZZ) | S2 (XIXIXIX) | S1 (IXXIIXX) | S0 (IIIXXXX) |">>,
       <<"|---|---|---|---|---|---|---|---|">> >>

\* a mutation: the two cell texts change places
CellSwapped(commutes) ==
    IF commutes THEN <<"1 (anti-commute)">> ELSE <<"0 (commute)">>

\* lines 127-130
Cell(commutes) ==
    IF commutes THEN <<"0 (commute)">> ELSE <<"1 (anti-commute)">>

\* line 133
RowLine(parts) == <<"| ">> \o Join(<<" | ">>, parts) \o <<" |">>

\* lines 108-111: one iteration of the loop that fills x_errors
BuildXError ==
    /\ pc = "x_errors"
    /\ Len(x_errors) < NumQubits
    /\ LET q == Len(x_errors)
       IN  x_errors' = Append(x_errors, <<TableKey(q), ErrorString("X", q)>>)
    /\ UNCHANGED <<pc, stabilizers, row_parts, printed, i, kind, syndrome,
                   syndrome_dict, returned, exception, enumerated,
                   pauli1, pauli2, result>>

\* lines 114-115: the loop is over, the header is printed
PrintHeader ==
    /\ pc = "x_errors"
    /\ Len(x_errors) = NumQubits
    /\ printed' = printed \o TableHeader
    /\ pc' = "rows"
    /\ UNCHANGED <<stabilizers, x_errors, row_parts, i, kind, syndrome,
                   syndrome_dict, returned, exception, enumerated,
                   pauli1, pauli2, result>>

\* the rows printed so far
RowsPrinted == Len(printed) - Len(TableHeader)

\* line 120: the next item of x_errors starts a row
RowStart ==
    /\ pc = "rows"
    /\ row_parts = <<>>
    /\ RowsPrinted < Len(x_errors)
    /\ LET item == x_errors[RowsPrinted + 1]
       IN  row_parts' = <<TableLabel(item[1]), item[2]>>
    /\ UNCHANGED <<pc, stabilizers, x_errors, printed, i, kind, syndrome,
                   syndrome_dict, returned, exception, enumerated,
                   pauli1, pauli2, result>>

\* lines 123-130: one iteration of the loop over the generators
RowAppend ==
    /\ pc = "rows"
    /\ row_parts # <<>>
    /\ Len(row_parts) < 2 + Len(TableStabOrder)
    /\ LET stab_name == TableStabOrder[Len(row_parts) - 1]
           r == pauli_commute(row_parts[2], TableStabilizers[stab_name])
       IN  IF r.raised # None
           THEN /\ pc' = "aborted"
                /\ exception' = r.raised
                /\ UNCHANGED row_parts
           ELSE /\ row_parts' = Append(row_parts, Cell(r.value))
                /\ UNCHANGED <<pc, exception>>
    /\ UNCHANGED <<stabilizers, x_errors, printed, i, kind, syndrome,
                   syndrome_dict, returned, enumerated, pauli1, pauli2, result>>

\* line 133: the row is printed
RowPrint ==
    /\ pc = "rows"
    /\ Len(row_parts) = 2 + Len(TableStabOrder)
    /\ printed' = Append(printed, RowLine(row_parts))
    /\ row_parts' = <<>>
    /\ UNCHANGED <<pc, stabilizers, x_errors, i, kind, syndrome,
                   syndrome_dict, returned, exception, enumerated,
                   pauli1, pauli2, result>>

\* lines 139-144: generate_x_error_table has returned; the banner is printed
\* and generate_syndrome_dictionary is called
PrintBanner ==
    /\ pc = "rows"
    /\ row_parts = <<>>
    /\ RowsPrinted = Len(x_errors)
    /\ printed' = printed \o << <<"\n", "==================================================">>,
                                <<"SYNDROME DICTIONARY">>,
                                <<"==================================================">> >>
    /\ pc' = "dict"
    /\ UNCHANGED <<stabilizers, x_errors, row_parts, i, kind, syndrome,
                   syndrome_dict, returned, exception, enumerated,
                   pauli1, pauli2, result>>

(***************************************************************************)
(* generate_syndrome_dictionary                                            *)
(***************************************************************************)
\* the error string of the block that is running (x_error, y_error, z_error,
\* identity)
CurrentError == IF kind = "I" THEN Identity ELSE ErrorString(kind, i)

\* the label the block assigns
CurrentLabel == IF kind = "I" THEN IdentityLabel ELSE Label(kind, i)

\* a mutation: the Z block runs before the Y block
BlockOrderXZY == <<"X", "Z", "Y">>

\* the order of the blocks in the loop body: lines 64, 71, 78
BlockOrder == <<"X", "Y", "Z">>

BlockIndex(p) == CHOOSE b \in 1..Len(BlockOrder) : BlockOrder[b] = p

\* lines 56-59: one iteration of get_syndrome's loop; the ValueError of
\* pauli_commute leaves get_syndrome and generate_syndrome_dictionary
GetSyndromeStep ==
    /\ pc = "dict"
    /\ Len(syndrome) < Len(StabOrder)
    /\ LET stab_name == StabOrder[Len(syndrome) + 1]
           r == pauli_commute(CurrentError, stabilizers[stab_name])
       IN  IF r.raised # None
           THEN /\ pc' = "aborted"
                /\ exception' = r.raised
                /\ UNCHANGED syndrome
           ELSE /\ syndrome' = Append(syndrome, SyndromeBit(r.value))
                /\ UNCHANGED <<pc, exception>>
    /\ UNCHANGED <<stabilizers, x_errors, row_parts, printed, i, kind,
                   syndrome_dict, returned, enumerated, pauli1, pauli2, result>>

\* lines 60 and 69, 76, 83, 88: get_syndrome returns and the label is stored
Insert ==
    /\ pc = "dict"
    /\ Len(syndrome) = Len(StabOrder)
    /\ syndrome_dict' = Put(syndrome_dict, syndrome, CurrentLabel)
    /\ enumerated' = Append(enumerated, <<CurrentLabel, CurrentError>>)
    /\ syndrome' = <<>>
    /\ IF kind = "I"
       THEN /\ pc' = "return"
            /\ UNCHANGED <<i, kind>>
       ELSE IF BlockIndex(kind) < Len(BlockOrder)
       THEN /\ kind' = BlockOrder[BlockIndex(kind) + 1]
            /\ UNCHANGED <<pc, i>>
       ELSE IF i + 1 < NumQubits
       THEN /\ i' = i + 1
            /\ kind' = BlockOrder[1]
            /\ UNCHANGED pc
       ELSE /\ i' = i + 1
            /\ kind' = "I"
            /\ UNCHANGED pc
    /\ UNCHANGED <<stabilizers, x_errors, row_parts, printed, returned,
                   exception, pauli1, pauli2, result>>

\* line 90
Return ==
    /\ pc = "return"
    /\ returned' = [set |-> TRUE, value |-> syndrome_dict]
    /\ pc' = "returned"
    /\ UNCHANGED <<stabilizers, x_errors, row_parts, printed, i, kind, syndrome,
                   syndrome_dict, exception, enumerated, pauli1, pauli2, result>>

(***************************************************************************)
(* The main block: the dictionary is printed sorted by syndrome            *)
(***************************************************************************)
\* str < str for the strings of '0' and '1' that are the keys
RECURSIVE StrLess(_, _)
StrLess(a, b) ==
    IF b = <<>> THEN FALSE
    ELSE IF a = <<>> THEN TRUE
    ELSE IF Head(a) # Head(b) THEN Head(a) = "0" /\ Head(b) = "1"
    ELSE StrLess(Tail(a), Tail(b))

\* sorted(keys): the keys of a dict are distinct, so the items sort by key
RECURSIVE SortedKeys(_)
SortedKeys(keys) ==
    IF keys = {} THEN <<>>
    ELSE LET least == CHOOSE a \in keys : \A b \in keys \ {a} : StrLess(a, b)
         IN  <<least>> \o SortedKeys(keys \ {least})

\* line 151-152
DictLine(d, sorted, n) ==
    <<"    '">> \o sorted[n] \o <<"': '">> \o d[sorted[n]] \o <<"'">>
        \o (IF n < Len(sorted) THEN <<",">> ELSE <<>>)

\* lines 147-153
PrintDictionary ==
    /\ pc = "returned"
    /\ LET sorted == SortedKeys(DOMAIN returned.value)
       IN  printed' = printed \o << <<"{">> >>
                        \o [n \in 1..Len(sorted) |-> DictLine(returned.value, sorted, n)]
                        \o << <<"}">> >>
    /\ pc' = "done"
    /\ UNCHANGED <<stabilizers, x_errors, row_parts, i, kind, syndrome,
                   syndrome_dict, returned, exception, enumerated,
                   pauli1, pauli2, result>>

(***************************************************************************)
(* The program: python generate_error_table.py                             *)
(***************************************************************************)
NotCalled == [raised |-> None, value |-> FALSE, called |-> FALSE]

Init ==
    /\ pc = "x_errors"
    /\ stabilizers = RefStabilizers
    /\ x_errors = <<>>
    /\ row_parts = <<>>
    /\ printed = <<>>
    /\ i = 0
    /\ kind = BlockOrder[1]
    /\ syndrome = <<>>
    /\ syndrome_dict = EmptyDict
    /\ returned = NotReturned
    /\ exception = None
    /\ enumerated = <<>>
    /\ pauli1 = <<>>
    /\ pauli2 = <<>>
    /\ result = NotCalled

Next ==
    \/ BuildXError
    \/ PrintHeader
    \/ RowStart
    \/ RowAppend
    \/ RowPrint
    \/ PrintBanner
    \/ GetSyndromeStep
    \/ Insert
    \/ Return
    \/ PrintDictionary

Spec == Init /\ [][Next]_vars

(***************************************************************************)
(* generate_syndrome_dictionary over a supplied dict of generators: each   *)
(* generator is the reference one, the identity, or the reference one      *)
(* without its last symbol                                                 *)
(***************************************************************************)
GenChoice(name, c) ==
    IF c = 1 THEN RefStabilizers[name]
    ELSE IF c = 2 THEN Identity
    ELSE SubSeq(RefStabilizers[name], 1, NumQubits - 1)

GenConfigs ==
    { [name \in StabNames |-> GenChoice(name, c[name])] : c \in [StabNames -> 1..3] }

InitGen ==
    /\ pc = "dict"
    /\ stabilizers \in GenConfigs
    /\ x_errors = <<>>
    /\ row_parts = <<>>
    /\ printed = <<>>
    /\ i = 0
    /\ kind = BlockOrder[1]
    /\ syndrome = <<>>
    /\ syndrome_dict = EmptyDict
    /\ returned = NotReturned
    /\ exception = None
    /\ enumerated = <<>>
    /\ pauli1 = <<>>
    /\ pauli2 = <<>>
    /\ result = NotCalled

NextGen ==
    \/ GetSyndromeStep
    \/ Insert
    \/ Return

SpecGen == InitGen /\ [][NextGen]_vars

(***************************************************************************)
(* pauli_commute called on its own, on any two strings of at most MaxLen   *)
(* symbols and on the generators                                           *)
(***************************************************************************)
PauliStrings == UNION { [1..n -> Alphabet] : n \in 0..MaxLen }

GeneratorStrings == { RefStabilizers[name] : name \in StabNames }

InitPauli ==
    /\ pc = "call"
    /\ stabilizers = RefStabilizers
    /\ x_errors = <<>>
    /\ row_parts = <<>>
    /\ printed = <<>>
    /\ i = 0
    /\ kind = BlockOrder[1]
    /\ syndrome = <<>>
    /\ syndrome_dict = EmptyDict
    /\ returned = NotReturned
    /\ exception = None
    /\ enumerated = <<>>
    /\ pauli1 \in PauliStrings \cup GeneratorStrings
    /\ pauli2 \in PauliStrings \cup GeneratorStrings
    /\ result = NotCalled

\* lines 10-36: one call
CallPauliCommute ==
    /\ pc = "call"
    /\ LET r == pauli_commute(pauli1, pauli2)
       IN  /\ result' = [raised |-> r.raised, value |-> r.value, called |-> TRUE]
           /\ pc' = IF r.raised # None THEN "raised" ELSE "called"
    /\ UNCHANGED <<stabilizers, x_errors, row_parts, printed, i, kind, syndrome,
                   syndrome_dict, returned, exception, enumerated, pauli1, pauli2>>

NextPauli == CallPauliCommute

SpecPauli == InitPauli /\ [][NextPauli]_vars

(***************************************************************************)
(* What the claims speak of, stated without the program's definitions      *)
(***************************************************************************)
\* the positions where both symbols are non-identity and different
AntiPositions(a, b) ==
    { k \in 1..Len(a) : a[k] # "I" /\ b[k] # "I" /\ a[k] # b[k] }

EvenAnti(a, b) == Cardinality(AntiPositions(a, b)) % 2 = 0

\* the generators in the order S5, S4, S3, S2, S1, S0
GeneratorList ==
    << <<"Z", "I", "Z", "I", "Z", "I", "Z">>,
       <<"I", "Z", "Z", "I", "I", "Z", "Z">>,
       <<"I", "I", "I", "Z", "Z", "Z", "Z">>,
       <<"X", "I", "X", "I", "X", "I", "X">>,
       <<"I", "X", "X", "I", "I", "X", "X">>,
       <<"I", "I", "I", "X", "X", "X", "X">> >>

GeneratorNames == <<"S5", "S4", "S3", "S2", "S1", "S0">>

\* the syndrome of e as the claims define it
ExpectedSyndrome(e) ==
    [k \in 1..6 |-> IF EvenAnti(e, GeneratorList[k]) THEN "0" ELSE "1"]

\* the error on qubit q: symbol p at string position n-1-q (from 0), n = 7
SingleError(p, q) == [j \in 1..7 |-> IF j - 1 = 7 - 1 - q THEN p ELSE "I"]

AllIdentity == [j \in 1..7 |-> "I"]

\* the 3n + 1 = 22 operators in the canonical order, with their labels
CanonicalErrors ==
    [n \in 1..22 |->
        IF n = 22 THEN << <<"I">>, AllIdentity >>
        ELSE LET q == (n - 1) \div 3
                 p == <<"X", "Y", "Z">>[((n - 1) % 3) + 1]
             IN  << <<p, DigitChars[q + 1]>>, SingleError(p, q) >>]

Zeros(n) == [k \in 1..n |-> "0"]

Xor(a, b) == [k \in 1..Len(a) |-> IF a[k] = b[k] THEN "0" ELSE "1"]

\* the syndrome is complete and about to be stored
SyndromeReady == pc = "dict" /\ Len(syndrome) = 6

\* the table rows on stdout once generate_x_error_table has returned: what
\* lies between the two header lines and the three banner lines
TableRows == SubSeq(printed, 3, Len(printed) - 3)

\* a row of the table for an error: label, Pauli string, one cell per generator
ExpectedRow(label, e) ==
    <<"| ">> \o label \o <<" | ">> \o e
        \o [k \in 1..12 |->
              IF k % 2 = 1 THEN " | "
              ELSE IF EvenAnti(e, GeneratorList[k \div 2])
                   THEN "0 (commute)" ELSE "1 (anti-commute)"]
        \o <<" |">>

(***************************************************************************)
(* The claims                                                              *)
(***************************************************************************)

\* C1: on equal-length strings over {I, X, Y, Z}, pauli_commute returns True
\* exactly when the number of positions where both symbols are non-identity
\* and different is even, and False when it is odd.
C1_ParityRule ==
    (result.called /\ Len(pauli1) = Len(pauli2))
        => (result.raised = None /\ result.value = EvenAnti(pauli1, pauli2))

C1_Witness ==
    /\ result.called
    /\ pauli1 = <<"X", "Y", "Z">>
    /\ pauli2 = <<"Y", "Y", "I">>
    /\ result.value = FALSE

\* C2: a syndrome has one bit per generator, the k-th bit (order S5..S0) is
\* '1' iff the error anti-commutes with the k-th generator; this holds of the
\* bits get_syndrome appends for the enumerated errors and of get_syndrome on
\* every length-7 string; the identity gives '000000', stored under label 'I'.
C2_SyndromeBits ==
    /\ Len(syndrome) <= 6
    /\ pc = "dict" =>
          \A k \in 1..Len(syndrome) : syndrome[k] = ExpectedSyndrome(CurrentError)[k]
    /\ \A s \in DOMAIN syndrome_dict : Len(s) = 6
    /\ pc = "returned" =>
          \A e \in [1..7 -> Alphabet] :
              get_syndrome(e, stabilizers) = ExpectedSyndrome(e)
    /\ (SyndromeReady /\ kind = "I") => syndrome = Zeros(6)
    /\ returned.set =>
          /\ Zeros(6) \in DOMAIN returned.value
          /\ returned.value[Zeros(6)] = <<"I">>

C2_Witness ==
    /\ SyndromeReady
    /\ kind = "Y"
    /\ i = 2
    /\ syndrome = <<"1", "0", "1", "1", "0", "1">>

\* C3: the 22 enumerated operators have pairwise distinct syndromes: after
\* every prefix of the inserts the table has as many entries as operators
\* inserted, no insert finds its key present, the finished table has 22.
C3_NoCollision ==
    /\ Cardinality(DOMAIN syndrome_dict) = Len(enumerated)
    /\ SyndromeReady => syndrome \notin DOMAIN syndrome_dict
    /\ returned.set =>
          /\ Len(enumerated) = 22
          /\ Cardinality(DOMAIN returned.value) = 22

C3_Witness ==
    /\ returned.set
    /\ Cardinality(DOMAIN returned.value) = 22
    /\ Len(enumerated) = 22

C5_RoundTrip ==
    returned.set =>
        \A n \in 1..22 :
            LET s == get_syndrome(CanonicalErrors[n][2], stabilizers)
            IN  /\ s \in DOMAIN returned.value
                /\ returned.value[s] = CanonicalErrors[n][1]

C5_Witness ==
    /\ returned.set
    /\ get_syndrome(SingleError("Z", 4), stabilizers) = <<"0", "0", "0", "1", "1", "0">>
    /\ returned.value[<<"0", "0", "0", "1", "1", "0">>] = <<"Z", "4">>

\* C6: the enumeration is X{i}, Y{i}, Z{i} for i = 0..6 in that order, each
\* with its one non-identity symbol at string position n-1-i, then the one
\* all-identity operator 'I': 22 operators; x_errors holds the X strings.
C6_Enumeration ==
    /\ Len(enumerated) <= 22
    /\ \A n \in 1..Len(enumerated) : enumerated[n] = CanonicalErrors[n]
    /\ SyndromeReady =>
          <<CurrentLabel, CurrentError>> = CanonicalErrors[Len(enumerated) + 1]
    /\ returned.set =>
          /\ Len(enumerated) = 22
          /\ Cardinality({ n \in 1..22 : enumerated[n][2] = AllIdentity }) = 1
    /\ \A n \in 1..Len(x_errors) : x_errors[n][2] = SingleError("X", n - 1)

C6_Witness ==
    /\ returned.set
    /\ Len(enumerated) = 22
    /\ enumerated[5] = << <<"Y", "1">>, <<"I", "I", "I", "I", "I", "Y", "I">> >>
    /\ enumerated[22] = << <<"I">>, AllIdentity >>

\* C7: a comparison of strings of different lengths yields no bit: the
\* ValueError ends the build at that generator, nothing is returned, and no
\* build with a generator of another length than the errors' ever returns.
C7_LengthMismatchAborts ==
    /\ \A k \in 1..Len(syndrome) : Len(stabilizers[GeneratorNames[k]]) = 7
    /\ pc = "aborted" =>
          /\ exception = <<"ValueError">>
          /\ ~returned.set
          /\ Len(syndrome) < 6
          /\ Len(stabilizers[GeneratorNames[Len(syndrome) + 1]]) # 7
    /\ (\E name \in StabNames : Len(stabilizers[name]) # 7) =>
          /\ ~returned.set
          /\ pc \in {"dict", "aborted"}
          /\ syndrome_dict = EmptyDict

C7_Witness ==
    /\ pc = "aborted"
    /\ exception = <<"ValueError">>
    /\ Len(syndrome) = 5
    /\ Len(stabilizers["S0"]) = 6

\* C8: the hard-coded generators are the six of the reference code and
\* pauli_commute(Si, Sj) is True for every pair, i = j included.
C8_GeneratorsCommute ==
    /\ \A k \in 1..6 : RefStabilizers[GeneratorNames[k]] = GeneratorList[k]
    /\ (result.called /\ pauli1 \in GeneratorStrings /\ pauli2 \in GeneratorStrings)
          => (result.raised = None /\ result.value = TRUE)

C8_Witness ==
    /\ result.called
    /\ pauli1 = GeneratorList[1]
    /\ pauli2 = GeneratorList[4]
    /\ result.value = TRUE

\* C9 as stated: the rendered table has one row for each enumerated error
\* (X, Y, Z on every qubit and the identity), in enumeration order.
C9_RowPerEnumeratedError ==
    pc = "dict" =>
        /\ Len(TableRows) = 22
        /\ \A n \in 1..22 :
              TableRows[n] = ExpectedRow(CanonicalErrors[n][1], CanonicalErrors[n][2])

\* C9 amended: the rendered table has one row for each single-qubit X error
\* only, X_0 .. X_6 in ascending qubit order: the label $X_i$, the Pauli
\* string, and one commute / anti-commute cell per generator in order S5..S0.
C9_RowPerXError ==
    /\ pc \in {"x_errors", "rows"} =>
          \A n \in 3..Len(printed) :
              printed[n] = ExpectedRow(<<"$", "X", "_", DigitChars[n - 2], "$">>,
                                       SingleError("X", n - 3))
    /\ pc = "dict" =>
          /\ Len(TableRows) = 7
          /\ \A q \in 0..6 :
                TableRows[q + 1] = ExpectedRow(<<"$", "X", "_", DigitChars[q + 1], "$">>,
                                               SingleError("X", q))

C9_Witness ==
    /\ pc = "dict"
    /\ Len(TableRows) = 7
    /\ TableRows[3] = <<"| ", "$", "X", "_", "2", "$", " | ",
                        "I", "I", "I", "I", "X", "I", "I",
                        " | ", "1 (anti-commute)", " | ", "0 (commute)",
                        " | ", "1 (anti-commute)", " | ", "0 (commute)",
                        " | ", "0 (commute)", " | ", "0 (commute)", " |">>

\* C10: the syndrome of X_i is '000' on S2, S1, S0, the syndrome of Z_i is
\* '000' on S5, S4, S3, and the syndrome of Y_i is the bitwise XOR of the two.
C10_XorStructure ==
    /\ (SyndromeReady /\ kind = "X") => SubSeq(syndrome, 4, 6) = Zeros(3)
    /\ (SyndromeReady /\ kind = "Z") =>
          /\ SubSeq(syndrome, 1, 3) = Zeros(3)
          /\ \E sx \in DOMAIN syndrome_dict, sy \in DOMAIN syndrome_dict :
                /\ syndrome_dict[sx] = <<"X", DigitChars[i + 1]>>
                /\ syndrome_dict[sy] = <<"Y", DigitChars[i + 1]>>
                /\ sy = Xor(sx, syndrome)
    /\ returned.set =>
          \A q \in 0..6 :
              \E sx \in DOMAIN returned.value, sy \in DOMAIN returned.value,
                 sz \in DOMAIN returned.value :
                /\ returned.value[sx] = <<"X", DigitChars[q + 1]>>
                /\ returned.value[sy] = <<"Y", DigitChars[q + 1]>>
                /\ returned.value[sz] = <<"Z", DigitChars[q + 1]>>
                /\ SubSeq(sx, 4, 6) = Zeros(3)
                /\ SubSeq(sz, 1, 3) = Zeros(3)
                /\ sy = Xor(sx, sz)

C10_Witness ==
    /\ SyndromeReady
    /\ kind = "Z"
    /\ i = 0
    /\ syndrome = <<"0", "0", "0", "1", "1", "1">>
    /\ syndrome_dict[<<"1", "1", "1", "1", "1", "1">>] = <<"Y", "0">>

====
